---- MODULE Spec2Model ----
(***************************************************************************)
(* A model of env_validator_rs (src/src/lib.rs): validate_env_vars, the    *)
(* EnvConfig accessor (get, get_parsed) and the Display rendering of       *)
(* ConfigError.                                                            *)
(*                                                                         *)
(* Text is modelled by TLA+ strings; a character of a string s is          *)
(* SubSeq(s, i, i).  The process environment maps each name to an OS       *)
(* string, which is unset, valid Unicode text, or bytes that are not valid *)
(* Unicode: std::env::var answers Ok(text), Err(NotPresent) and            *)
(* Err(NotUnicode) respectively.  The environment file is modelled by the  *)
(* items that dotenvy's line iterator yields for it: a (key, value) pair   *)
(* for a well-formed line, an error for a malformed one.                   *)
(***************************************************************************)
EXTENDS Integers, Sequences, FiniteSets, TLC

VARIABLES
    env,          \* the process environment: name -> OS string
    file,         \* the environment file in the working directory
    calls,        \* number of validate_env_vars calls made so far
    required,     \* required_vars of the last validate_env_vars call
    envBefore,    \* the environment as it was when that call began
    result,       \* what that call returned
    before,       \* required, envBefore and result of the call before the last
    dirty,        \* the environment or the file was changed since the last call
    quiet,        \* no such change happened between the last two calls
    held,         \* the first EnvConfig a call returned, kept by the caller
    answers,      \* what get and get_parsed answered on it when it was returned
    changes,      \* number of changes made to the environment and the file
    parses,       \* the get_parsed calls made on the returned EnvConfig
    error,        \* the ConfigError handed to Display
    rendered      \* the text Display wrote for it

callVars == <<env, file, calls, required, envBefore, result>>

histVars == <<before, dirty, quiet, held, answers, changes>>

useVars == <<parses, error, rendered>>

vars == <<callVars, histVars, useVars>>

-----------------------------------------------------------------------------
(* Bounds of the model *)

MaxList == 3

MaxFile == 2

MaxCalls == 2

MaxChanges == 2

MaxParses == 2

MaxEntries == 2

-----------------------------------------------------------------------------
(* Text helpers *)

CharAt(s, i) == SubSeq(s, i, i)

\* Characters with the Unicode White_Space property that the model uses.
Whitespace == {" ", "\t", "\n"}

RECURSIVE trim_start(_)
trim_start(s) ==
    IF Len(s) > 0 /\ CharAt(s, 1) \in Whitespace
    THEN trim_start(SubSeq(s, 2, Len(s)))
    ELSE s

RECURSIVE trim_end(_)
trim_end(s) ==
    IF Len(s) > 0 /\ CharAt(s, Len(s)) \in Whitespace
    THEN trim_end(SubSeq(s, 1, Len(s) - 1))
    ELSE s

trim(s) == trim_end(trim_start(s))

is_empty(s) == Len(s) = 0

-----------------------------------------------------------------------------
(* The process environment and std::env::var *)

Unset == [state |-> "unset", val |-> ""]

Text(s) == [state |-> "unicode", val |-> s]

\* An OS string that is not valid Unicode (for instance the byte 0xFF).
Bytes == [state |-> "bytes", val |-> "\\xFF"]

env_var(e, name) ==
    CASE e[name].state = "unicode" -> [ok |-> TRUE, val |-> e[name].val, err |-> ""]
      [] e[name].state = "bytes" -> [ok |-> FALSE, val |-> "", err |-> "NotUnicode"]
      [] OTHER -> [ok |-> FALSE, val |-> "", err |-> "NotPresent"]

set_var(e, name, value) == [e EXCEPT ![name] = Text(value)]

-----------------------------------------------------------------------------
(* The loader: dotenvy::dotenv() *)

NoFile == [found |-> FALSE, items |-> <<>>]

FileOf(items) == [found |-> TRUE, items |-> items]

Line(key, value) == [ok |-> TRUE, key |-> key, value |-> value]

Malformed == [ok |-> FALSE, key |-> "", value |-> ""]

\* load passing over a malformed line instead of stopping at it.
RECURSIVE load_skipping(_, _, _)
load_skipping(e, items, i) ==
    IF i > Len(items) THEN [env |-> e, ok |-> TRUE]
    ELSE IF ~items[i].ok THEN load_skipping(e, items, i + 1)
    ELSE IF ~env_var(e, items[i].key).ok
         THEN load_skipping(set_var(e, items[i].key, items[i].value), items, i + 1)
         ELSE load_skipping(e, items, i + 1)

\* Iter::load: each item in turn; the first error ends the loop and is
\* returned; a key is set only when env::var(key) is an error.
RECURSIVE load(_, _, _)
load(e, items, i) ==
    IF i > Len(items) THEN [env |-> e, ok |-> TRUE]
    ELSE IF ~items[i].ok THEN [env |-> e, ok |-> FALSE]
    ELSE IF ~env_var(e, items[i].key).ok
         THEN load(set_var(e, items[i].key, items[i].value), items, i + 1)
         ELSE load(e, items, i + 1)

dotenv(e, f) ==
    IF ~f.found THEN [env |-> e, ok |-> FALSE]
    ELSE load(e, f.items, 1)

-----------------------------------------------------------------------------
(* ConfigError, EnvConfig and validate_env_vars *)

Ok(cfg) == [tag |-> "Ok", config |-> cfg]

Err(e) == [tag |-> "Err", error |-> e]

NoResult == [tag |-> "None"]

NoCall == [made |-> FALSE]

NoConfig == [some |-> FALSE]

NoError == [some |-> FALSE]

NotRendered == [done |-> FALSE]

EmptyMap == <<>>

insert(m, k, v) == [x \in DOMAIN m \cup {k} |-> IF x = k THEN v ELSE m[x]]

format_empty(var_name) == var_name \o " (empty)"

\* check_one storing the trimmed text.
check_one_trimmed(e, var_name, acc) ==
    LET r == env_var(e, var_name)
    IN  IF r.ok /\ ~is_empty(trim(r.val))
        THEN [acc EXCEPT !.vars = insert(acc.vars, var_name, trim(r.val))]
        ELSE IF r.ok
        THEN [acc EXCEPT !.missing_vars = Append(acc.missing_vars, format_empty(var_name))]
        ELSE [acc EXCEPT !.missing_vars = Append(acc.missing_vars, var_name)]

\* Lines 64-74: the match on env::var for one required name; acc holds
\* missing_vars and vars as they are before it.
check_one(e, var_name, acc) ==
    LET r == env_var(e, var_name)
    IN  IF r.ok /\ ~is_empty(trim(r.val))
        THEN [acc EXCEPT !.vars = insert(acc.vars, var_name, r.val)]
        ELSE IF r.ok
        THEN [acc EXCEPT !.missing_vars = Append(acc.missing_vars, format_empty(var_name))]
        ELSE [acc EXCEPT !.missing_vars = Append(acc.missing_vars, var_name)]

\* Lines 63-75: the for loop over required_vars, from position i on.
RECURSIVE check_loop(_, _, _, _)
check_loop(e, required_vars, i, acc) ==
    IF i > Len(required_vars) THEN acc
    ELSE check_loop(e, required_vars, i + 1, check_one(e, required_vars[i], acc))

\* Lines 60-84: what validate_env_vars returns once the loader has run.
check_vars(e, required_vars) ==
    LET done == check_loop(e, required_vars, 1,
                           [missing_vars |-> <<>>, vars |-> EmptyMap])
    IN  IF done.missing_vars = <<>>
        THEN Ok([vars |-> done.vars])
        ELSE Err([missing_vars |-> done.missing_vars, invalid_vars |-> <<>>])

\* validate_env_vars running the loader after the names were looked up.
validate_then_load(e, f, required_vars) ==
    [env |-> dotenv(e, f).env, out |-> check_vars(e, required_vars)]

\* Lines 57-85: the environment the call leaves and the value it returns.
validate_env_vars(e, f, required_vars) ==
    LET loaded == dotenv(e, f)
    IN  [env |-> loaded.env, out |-> check_vars(loaded.env, required_vars)]

-----------------------------------------------------------------------------
(* The accessor: EnvConfig::get *)

Some(v) == [some |-> TRUE, val |-> v]

None == [some |-> FALSE]

\* HashMap::get on the vars of an EnvConfig.
map_get(m, key) == IF key \in DOMAIN m THEN Some(m[key]) ELSE None

\* get answering from the environment for a key the EnvConfig lacks.
get_or_env(cfg, key) ==
    IF key \in DOMAIN cfg.vars THEN Some(cfg.vars[key])
    ELSE IF key \in DOMAIN env /\ env[key].state = "unicode" THEN Some(env[key].val)
    ELSE None

\* get reading the environment anew for a key the EnvConfig has.
get_live(cfg, key) ==
    IF key \in DOMAIN cfg.vars /\ key \in DOMAIN env /\ env[key].state = "unicode"
    THEN Some(env[key].val)
    ELSE None

get(cfg, key) == map_get(cfg.vars, key)

-----------------------------------------------------------------------------
(* The accessor: EnvConfig::get_parsed::<T>, for T = u16 *)

U16_MAX == 2^16 - 1

Digits == "0123456789"

IsDigit(c) == \E d \in 1..Len(Digits) : CharAt(Digits, d) = c

DigitValue(c) == (CHOOSE d \in 1..Len(Digits) : CharAt(Digits, d) = c) - 1

ParseOk(n) == [ok |-> TRUE, val |-> n, kind |-> ""]

ParseErr(kind) == [ok |-> FALSE, val |-> 0, kind |-> kind]

\* The digit loop of <u16 as FromStr>::from_str: acc is the number read from
\* the characters before position i.
RECURSIVE parse_digits(_, _, _)
parse_digits(s, i, acc) ==
    IF i > Len(s) THEN ParseOk(acc)
    ELSE IF ~IsDigit(CharAt(s, i)) THEN ParseErr("InvalidDigit")
    ELSE IF acc * 10 > U16_MAX THEN ParseErr("PosOverflow")
    ELSE IF acc * 10 + DigitValue(CharAt(s, i)) > U16_MAX THEN ParseErr("PosOverflow")
    ELSE parse_digits(s, i + 1, acc * 10 + DigitValue(CharAt(s, i)))

\* str::parse::<u16>: no trimming, one optional leading "+", decimal digits.
parse_u16(s) ==
    IF is_empty(s) THEN ParseErr("Empty")
    ELSE IF s = "+" \/ s = "-" THEN ParseErr("InvalidDigit")
    ELSE IF CharAt(s, 1) = "+" THEN parse_digits(s, 2, 0)
    ELSE parse_digits(s, 1, 0)

Parsed(n) == [tag |-> "Ok", val |-> n, err |-> "", msg |-> ""]

Failed(err, msg) == [tag |-> "Err", val |-> 0, err |-> err, msg |-> msg]

\* get_parsed parsing the trimmed text.
get_parsed_u16_trimmed(cfg, key) ==
    LET v == map_get(cfg.vars, key)
    IN  IF ~v.some
        THEN Failed("KeyNotFound", "Key '" \o key \o "' not found")
        ELSE LET p == parse_u16(trim(v.val))
             IN  IF p.ok THEN Parsed(p.val) ELSE Failed("ParseIntError", p.kind)

get_parsed_u16(cfg, key) ==
    LET v == map_get(cfg.vars, key)
    IN  IF ~v.some
        THEN Failed("KeyNotFound", "Key '" \o key \o "' not found")
        ELSE LET p == parse_u16(v.val)
             IN  IF p.ok THEN Parsed(p.val) ELSE Failed("ParseIntError", p.kind)

-----------------------------------------------------------------------------
(* impl fmt::Display for ConfigError *)

writeln(text) == text \o "\n"

\* Lines 18-20: the loop over missing_vars, from position i on.
RECURSIVE write_missing(_, _)
write_missing(missing_vars, i) ==
    IF i > Len(missing_vars) THEN ""
    ELSE writeln("  - " \o missing_vars[i]) \o write_missing(missing_vars, i + 1)

\* Lines 25-27: the loop over invalid_vars, from position i on.
RECURSIVE write_invalid(_, _)
write_invalid(invalid_vars, i) ==
    IF i > Len(invalid_vars) THEN ""
    ELSE writeln("  - " \o invalid_vars[i][1] \o ": " \o invalid_vars[i][2])
         \o write_invalid(invalid_vars, i + 1)

\* fmt writing the invalid section before the missing one.
fmt_invalid_first(self) ==
    writeln("Configuration validation failed:")
    \o (IF self.invalid_vars # <<>>
        THEN writeln("Invalid environment variables:")
             \o write_invalid(self.invalid_vars, 1)
        ELSE "")
    \o (IF self.missing_vars # <<>>
        THEN writeln("Missing required environment variables:")
             \o write_missing(self.missing_vars, 1)
        ELSE "")

\* Lines 13-31: the text written to the formatter.
fmt(self) ==
    writeln("Configuration validation failed:")
    \o (IF self.missing_vars # <<>>
        THEN writeln("Missing required environment variables:")
             \o write_missing(self.missing_vars, 1)
        ELSE "")
    \o (IF self.invalid_vars # <<>>
        THEN writeln("Invalid environment variables:")
             \o write_invalid(self.invalid_vars, 1)
        ELSE "")

-----------------------------------------------------------------------------
(* Inputs *)

Names == {"PORT", "API_KEY", "DATABASE_URL"}

EnvValues == {Unset, Bytes, Text(""), Text("   "), Text(" 8080 ")}

FileLines == {Malformed, Line("PORT", "8080"), Line("API_KEY", "   ")}

SeqsUpTo(S, n) == UNION {[1..k -> S] : k \in 0..n}

Files == {NoFile} \cup {FileOf(items) : items \in SeqsUpTo(FileLines, MaxFile)}

Lists == SeqsUpTo(Names, MaxList)

\* Keys a caller may ask the accessor for: the names, and one that is never
\* an environment variable of the model.
Keys == Names \cup {"UNDECLARED"}

-----------------------------------------------------------------------------
(* One call of validate_env_vars from an arbitrary environment and file *)

InitValidate ==
    /\ env \in [Names -> EnvValues]
    /\ file \in Files
    /\ calls = 0
    /\ required = <<>>
    /\ envBefore = env
    /\ result = NoResult
    /\ before = NoCall
    /\ dirty = FALSE
    /\ quiet = FALSE
    /\ held = NoConfig
    /\ answers = <<>>
    /\ changes = 0
    /\ parses = <<>>
    /\ error = NoError
    /\ rendered = NotRendered

\* The effect of one call on the environment and on what the caller holds.
Call(required_vars) ==
    /\ LET r == validate_env_vars(env, file, required_vars)
       IN  /\ env' = r.env
           /\ result' = r.out
    /\ envBefore' = env
    /\ required' = required_vars
    /\ calls' = calls + 1
    /\ UNCHANGED file

Validate(required_vars) ==
    /\ calls = 0
    /\ Call(required_vars)
    /\ UNCHANGED <<histVars, useVars>>

NextValidate == \E required_vars \in Lists : Validate(required_vars)

SpecValidate == InitValidate /\ [][NextValidate]_vars

-----------------------------------------------------------------------------
(* Calls of validate_env_vars interleaved with changes to the environment *)
(* and to the file made by the rest of the process                        *)

StartValues == {Unset, Bytes, Text(" 8080 ")}

NewValues == {"", "abc"}

\* The variables the rest of the process changes.
ChangedNames == {"PORT", "API_KEY"}

SomeFiles == {NoFile,
              FileOf(<<Line("PORT", "8080"), Line("PORT", "9090")>>),
              FileOf(<<Line("API_KEY", "secret"), Malformed, Line("PORT", "8080")>>)}

SomeLists == {<<>>, <<"PORT">>, <<"PORT", "API_KEY">>, <<"API_KEY", "PORT", "API_KEY">>}

Init ==
    /\ env \in {e \in [Names -> StartValues] : e["DATABASE_URL"] = Unset}
    /\ file \in SomeFiles
    /\ calls = 0
    /\ required = <<>>
    /\ envBefore = env
    /\ result = NoResult
    /\ before = NoCall
    /\ dirty = FALSE
    /\ quiet = FALSE
    /\ held = NoConfig
    /\ answers = <<>>
    /\ changes = 0
    /\ parses = <<>>
    /\ error = NoError
    /\ rendered = NotRendered

\* A call; the caller keeps the first EnvConfig it is given.
Revalidate(required_vars) ==
    /\ calls < MaxCalls
    /\ Call(required_vars)
    /\ before' = IF calls = 0 THEN NoCall
                 ELSE [made |-> TRUE, required |-> required,
                       envBefore |-> envBefore, result |-> result]
    /\ quiet' = (calls > 0 /\ ~dirty)
    /\ dirty' = FALSE
    /\ held' = IF ~held.some /\ result'.tag = "Ok"
               THEN [some |-> TRUE, config |-> result'.config]
               ELSE held
    /\ answers' = IF ~held.some /\ result'.tag = "Ok"
                  THEN [k \in Keys |-> [got |-> get(held.config, k),
                                        parsed |-> get_parsed_u16(held.config, k)]]'
                  ELSE answers
    /\ UNCHANGED <<changes, useVars>>

Changed ==
    /\ changes < MaxChanges
    /\ changes' = changes + 1
    /\ dirty' = TRUE
    /\ UNCHANGED <<calls, required, envBefore, result, before, quiet, held, answers, useVars>>

SetVar(name, value) ==
    /\ env[name] # Text(value)
    /\ env' = set_var(env, name, value)
    /\ UNCHANGED file
    /\ Changed

RemoveVar(name) ==
    /\ ~(env[name].state = "unset")
    /\ env' = [env EXCEPT ![name] = Unset]
    /\ UNCHANGED file
    /\ Changed

WriteFile(f) ==
    /\ f # file
    /\ file' = f
    /\ UNCHANGED env
    /\ Changed

Next ==
    \/ \E required_vars \in SomeLists : Revalidate(required_vars)
    \/ \E name \in ChangedNames, value \in NewValues : SetVar(name, value)
    \/ \E name \in ChangedNames : RemoveVar(name)
    \/ \E f \in SomeFiles : WriteFile(f)

Spec == Init /\ [][Next]_vars

-----------------------------------------------------------------------------
(* One call, then get_parsed::<u16> calls on the EnvConfig it returned *)

ParseTexts == {"42", " 42", "42 ", "abc", "+42", "-1", "+", "007", "8080",
               "65535", "65536", "99999"}

InitParse ==
    /\ env \in {e \in [Names -> {Unset, Text("abc")} \cup {Text(t) : t \in ParseTexts}] :
                   /\ e["API_KEY"] \in {Unset, Text("abc")}
                   /\ e["DATABASE_URL"] = Unset}
    /\ file = NoFile
    /\ calls = 0
    /\ required = <<>>
    /\ envBefore = env
    /\ result = NoResult
    /\ before = NoCall
    /\ dirty = FALSE
    /\ quiet = FALSE
    /\ held = NoConfig
    /\ answers = <<>>
    /\ changes = 0
    /\ parses = <<>>
    /\ error = NoError
    /\ rendered = NotRendered

GetParsed(key) ==
    /\ result.tag = "Ok"
    /\ Len(parses) < MaxParses
    /\ parses' = Append(parses, [key |-> key, res |-> get_parsed_u16(result.config, key)])
    /\ UNCHANGED <<callVars, histVars, error, rendered>>

NextParse ==
    \/ \E required_vars \in Lists : Validate(required_vars)
    \/ \E key \in Keys : GetParsed(key)

SpecParse == InitParse /\ [][NextParse]_vars

-----------------------------------------------------------------------------
(* Display of a ConfigError: one the caller built, or one a call returned *)

MissingEntries == {"PORT", "API_KEY (empty)"}

InvalidPairs == {<<"PORT", "invalid digit found in string">>,
                 <<"MAX_CONNECTIONS", "number too large to fit in target type">>}

ConfigErrors ==
    {[missing_vars |-> m, invalid_vars |-> v] :
        m \in SeqsUpTo(MissingEntries, MaxEntries),
        v \in SeqsUpTo(InvalidPairs, MaxEntries)}

InitDisplay ==
    /\ error \in {NoError} \cup {[some |-> TRUE, value |-> e] : e \in ConfigErrors}
    /\ env \in IF error.some THEN {[n \in Names |-> Unset]}
               ELSE [Names -> {Unset, Text("   "), Text("8080")}]
    /\ file = NoFile
    /\ calls = 0
    /\ required = <<>>
    /\ envBefore = env
    /\ result = NoResult
    /\ before = NoCall
    /\ dirty = FALSE
    /\ quiet = FALSE
    /\ held = NoConfig
    /\ answers = <<>>
    /\ changes = 0
    /\ parses = <<>>
    /\ rendered = NotRendered

\* A call whose Err the caller goes on to display.
Fail(required_vars) ==
    /\ calls = 0
    /\ ~error.some
    /\ Call(required_vars)
    /\ error' = IF result'.tag = "Err"
                THEN [some |-> TRUE, value |-> result'.error]
                ELSE error
    /\ UNCHANGED <<histVars, parses, rendered>>

\* to_string() of the error.
Display ==
    /\ error.some
    /\ ~rendered.done
    /\ rendered' = [done |-> TRUE, text |-> fmt(error.value)]
    /\ UNCHANGED <<callVars, histVars, parses, error>>

NextDisplay ==
    \/ \E required_vars \in Lists : Fail(required_vars)
    \/ Display

SpecDisplay == InitDisplay /\ [][NextDisplay]_vars

-----------------------------------------------------------------------------
(* Vocabulary of the claims, stated without the code's operators *)

Called == calls > 0

Range(seq) == {seq[i] : i \in DOMAIN seq}

Blank(s) == \A i \in 1..Len(s) : CharAt(s, i) \in Whitespace

IsAbsent(v) == v.state = "unset"

IsBlankText(v) == v.state = "unicode" /\ Blank(v.val)

IsUsableText(v) == v.state = "unicode" /\ ~Blank(v.val)

EmptySuffix == " (empty)"

Annotated(entry) ==
    /\ Len(entry) >= Len(EmptySuffix)
    /\ SubSeq(entry, Len(entry) - Len(EmptySuffix) + 1, Len(entry)) = EmptySuffix

Stem(entry) == SubSeq(entry, 1, Len(entry) - Len(EmptySuffix))

HasDuplicates(seq) == Len(seq) > Cardinality(Range(seq))

-----------------------------------------------------------------------------
(* C1 *)

-----------------------------------------------------------------------------
(* C4 *)

\* C4: on Ok the accessor holds exactly the names of the required list: get(k)
\* is present iff k occurs in the list, duplicates give one entry, and the
\* empty list gives Ok with get absent for every key.
C4_ExactlyTheRequiredNames ==
    Called =>
       /\ result.tag = "Ok" =>
             /\ \A k \in Keys : get(result.config, k).some <=> k \in Range(required)
             /\ Cardinality(DOMAIN result.config.vars) = Cardinality(Range(required))
       /\ required = <<>> =>
             /\ result.tag = "Ok"
             /\ \A k \in Keys : get(result.config, k) = None

\* A successful call with a repeated name in the list while another variable,
\* not in the list, is set to usable text.
C4_Witness ==
    /\ Called
    /\ result.tag = "Ok"
    /\ HasDuplicates(required)
    /\ \E k \in Names : k \notin Range(required) /\ IsUsableText(env[k])

-----------------------------------------------------------------------------
(* C2 *)

\* C2: an absent name in the list gives Err with the bare name in
\* missing_vars, a name holding empty or whitespace-only text gives Err with
\* "<name> (empty)" in missing_vars; conversely every unannotated entry is a
\* name absent from the environment and every "(empty)" entry is a name that
\* existed with only whitespace.
C2_Classification ==
    Called =>
       /\ \A i \in DOMAIN required :
             IsAbsent(env[required[i]]) =>
                /\ result.tag = "Err"
                /\ required[i] \in Range(result.error.missing_vars)
       /\ \A i \in DOMAIN required :
             IsBlankText(env[required[i]]) =>
                /\ result.tag = "Err"
                /\ (required[i] \o EmptySuffix) \in Range(result.error.missing_vars)
       /\ result.tag = "Err" =>
             \A entry \in Range(result.error.missing_vars) :
                IF Annotated(entry)
                THEN Stem(entry) \in Range(required) /\ IsBlankText(env[Stem(entry)])
                ELSE entry \in Range(required) /\ IsAbsent(env[entry])

\* C2, for calls in which no required name holds a value that is not valid
\* Unicode: the classification is as the claim states it.
C2_ClassificationOfText ==
    (\A i \in DOMAIN required : env[required[i]].state # "bytes")
    => C2_Classification

-----------------------------------------------------------------------------
(* C3 *)

RECURSIVE ExpectedMissing(_, _)
ExpectedMissing(e, list) ==
    IF list = <<>> THEN <<>>
    ELSE LET name == Head(list)
             here == IF IsAbsent(e[name]) THEN <<name>>
                     ELSE IF IsBlankText(e[name]) THEN <<name \o EmptySuffix>>
                     ELSE <<>>
         IN  here \o ExpectedMissing(e, Tail(list))

\* C3: the call fails iff some position of the list names an absent or blank
\* variable, and then missing_vars holds exactly one entry per such position,
\* in list order and without deduplication, invalid_vars is empty and no
\* EnvConfig is produced.
C3_ExhaustiveAllOrNothing ==
    Called =>
       LET expected == ExpectedMissing(env, required)
       IN  /\ result.tag \in {"Ok", "Err"}
           /\ result.tag = "Err" <=> expected # <<>>
           /\ result.tag = "Err" =>
                 /\ result.error.missing_vars = expected
                 /\ result.error.invalid_vars = <<>>
                 /\ "config" \notin DOMAIN result

\* C3, for calls in which no required name holds a value that is not valid
\* Unicode.
C3_ExhaustiveForText ==
    (\A i \in DOMAIN required : env[required[i]].state # "bytes")
    => C3_ExhaustiveAllOrNothing

-----------------------------------------------------------------------------
(* C8 *)

WellFormed(f) == f.found /\ \A i \in DOMAIN f.items : f.items[i].ok

FileKeys(f) == {f.items[i].key : i \in DOMAIN f.items}

\* The value of the first line of f that defines key.
FirstValue(f, key) ==
    LET i == CHOOSE j \in DOMAIN f.items :
                 /\ f.items[j].key = key
                 /\ \A h \in 1..(j - 1) : f.items[h].key # key
    IN  f.items[i].value

\* C8: the loader runs before the names are looked up and only inserts keys
\* that are not already set: a variable set before the call keeps its value,
\* whatever the file says, and a name defined only in a (well-formed) file
\* is seen by the same call with the file's value.
C8_LoaderPrecedence ==
    Called =>
       /\ \A n \in Names : ~IsAbsent(envBefore[n]) => env[n] = envBefore[n]
       /\ \A n \in Names :
             (IsAbsent(envBefore[n]) /\ WellFormed(file) /\ n \in FileKeys(file))
             => /\ env[n] = Text(FirstValue(file, n))
                /\ n \in Range(required) =>
                      IF IsUsableText(env[n])
                      THEN result.tag = "Ok" => get(result.config, n) = Some(env[n].val)
                      ELSE (n \o EmptySuffix) \in Range(result.error.missing_vars)

\* C8, for environments in which no variable holds a value that is not valid
\* Unicode when the call begins.
C8_LoaderPrecedenceOfText ==
    (\A n \in Names : envBefore[n].state # "bytes") => C8_LoaderPrecedence

-----------------------------------------------------------------------------
(* C9 *)

HasMalformed(f) == f.found /\ \E i \in DOMAIN f.items : ~f.items[i].ok

\* The position of the first malformed line of f.
FirstMalformed(f) ==
    CHOOSE i \in DOMAIN f.items :
        ~f.items[i].ok /\ \A h \in 1..(i - 1) : f.items[h].ok

-----------------------------------------------------------------------------
(* C6 *)

\* C6: two calls in a row with the same required list and no change to the
\* environment or the file made between them return equal outcomes, although
\* each call runs the loader: the second run of the loader changes nothing.
C6_Idempotent ==
    (calls >= 2 /\ quiet /\ before.made)
    => /\ ~dirty => env = envBefore
       /\ before.required = required => result = before.result

\* A repeated call whose first run loaded a required variable from the file,
\* so that the second run began in another environment than the first.
C6_Witness ==
    /\ calls >= 2
    /\ quiet
    /\ before.made
    /\ before.required = required
    /\ before.envBefore # envBefore
    /\ \E i \in DOMAIN required : before.envBefore[required[i]] # envBefore[required[i]]
    /\ result.tag = "Ok"

-----------------------------------------------------------------------------
(* C7 *)

\* C7: once a call has returned an EnvConfig, get and get_parsed answer on it,
\* for every key, what they answered when it was returned, whatever happened
\* since (a variable set, changed or removed, the file rewritten, a further
\* call).
C7_SnapshotIsolation ==
    held.some =>
       \A k \in Keys :
          /\ get(held.config, k) = answers[k].got
          /\ get_parsed_u16(held.config, k) = answers[k].parsed

\* The caller holds an EnvConfig with a value the environment no longer has,
\* and a further call has been made since the environment changed.
C7_Witness ==
    /\ held.some
    /\ calls >= 2
    /\ ~dirty
    /\ \E k \in DOMAIN held.config.vars : env[k] # Text(held.config.vars[k])
    /\ result.tag = "Err"

-----------------------------------------------------------------------------
(* C5 *)

\* The digits of a decimal numeral, after one optional leading "+".
NumeralDigits(text) ==
    IF Len(text) > 0 /\ CharAt(text, 1) = "+" THEN SubSeq(text, 2, Len(text)) ELSE text

IsNumeral(text) ==
    /\ Len(NumeralDigits(text)) > 0
    /\ \A i \in 1..Len(NumeralDigits(text)) : IsDigit(CharAt(NumeralDigits(text), i))

RECURSIVE NumeralValue(_)
NumeralValue(digits) ==
    IF Len(digits) = 0 THEN 0
    ELSE 10 * NumeralValue(SubSeq(digits, 1, Len(digits) - 1))
         + DigitValue(CharAt(digits, Len(digits)))

\* C5: the outcome of validate_env_vars does not depend on whether a value
\* parses; get_parsed(key) fails with key-not-found exactly when get(key) is
\* absent, and otherwise gives the decimal value of the stored, untrimmed
\* text when that is a numeral of at most 16 bits and a parse error if not
\* ("42" gives 42, "abc" a parse error); a repeated call gives the same.
C5_DeferredParsing ==
    Called =>
       /\ result.tag = "Ok" <=> \A i \in DOMAIN required : IsUsableText(env[required[i]])
       /\ \A j \in DOMAIN parses :
             LET key == parses[j].key
                 res == parses[j].res
                 stored == get(result.config, key)
             IN  /\ res.err = "KeyNotFound" <=> ~stored.some
                 /\ stored.some =>
                       /\ IF IsNumeral(stored.val)
                             /\ NumeralValue(NumeralDigits(stored.val)) < 2^16
                          THEN res = Parsed(NumeralValue(NumeralDigits(stored.val)))
                          ELSE res.tag = "Err" /\ res.err = "ParseIntError"
                       /\ stored.val = "42" => res = Parsed(42)
                       /\ stored.val = "abc" => res.tag = "Err" /\ res.err # "KeyNotFound"
       /\ \A i, j \in DOMAIN parses :
             parses[i].key = parses[j].key => parses[i].res = parses[j].res

\* PORT=abc passes validation of [PORT]; get_parsed("PORT"), called twice,
\* fails with a parse error both times.
C5_Witness ==
    /\ Called
    /\ env["PORT"] = Text("abc")
    /\ required = <<"PORT">>
    /\ result.tag = "Ok"
    /\ Len(parses) = 2
    /\ parses[1].key = "PORT"
    /\ parses[2].key = "PORT"
    /\ parses[2].res.err = "ParseIntError"

-----------------------------------------------------------------------------
(* C10 *)

HeaderLine == "Configuration validation failed:"

MissingLine == "Missing required environment variables:"

InvalidLine == "Invalid environment variables:"

\* The lines of a text in which every line ends with a line feed.
RECURSIVE SplitLines(_)
SplitLines(text) ==
    IF Len(text) = 0 THEN <<>>
    ELSE IF \A i \in 1..Len(text) : CharAt(text, i) # "\n" THEN <<text, "<no line feed>">>
    ELSE LET n == CHOOSE i \in 1..Len(text) :
                      /\ CharAt(text, i) = "\n"
                      /\ \A h \in 1..(i - 1) : CharAt(text, h) # "\n"
         IN  <<SubSeq(text, 1, n - 1)>> \o SplitLines(SubSeq(text, n + 1, Len(text)))

ExpectedLines(e) ==
    <<HeaderLine>>
    \o (IF Len(e.missing_vars) > 0
        THEN <<MissingLine>> \o [i \in 1..Len(e.missing_vars) |-> "  - " \o e.missing_vars[i]]
        ELSE <<>>)
    \o (IF Len(e.invalid_vars) > 0
        THEN <<InvalidLine>>
             \o [i \in 1..Len(e.invalid_vars) |->
                    "  - " \o e.invalid_vars[i][1] \o ": " \o e.invalid_vars[i][2]]
        ELSE <<>>)

\* C10: the text of a ConfigError is the header line, then iff missing_vars
\* is non-empty the missing header and one "  - <entry>" line per entry in
\* order, then iff invalid_vars is non-empty the invalid header and one
\* "  - <name>: <reason>" line per pair in order; an error returned by
\* validate_env_vars has no invalid section.
C10_Rendering ==
    rendered.done =>
       LET lines == SplitLines(rendered.text)
       IN  /\ lines = ExpectedLines(error.value)
           /\ \A i, j \in DOMAIN lines :
                 (lines[i] = MissingLine /\ lines[j] = InvalidLine) => i < j
           /\ Called => \A i \in DOMAIN lines : lines[i] # InvalidLine

\* A rendered error that has both sections, two entries in each.
C10_Witness ==
    /\ rendered.done
    /\ Len(error.value.missing_vars) = 2
    /\ Len(error.value.invalid_vars) = 2
    /\ error.value.missing_vars[1] # error.value.missing_vars[2]
    /\ Len(SplitLines(rendered.text)) = 7

====
